---------------------------- MODULE Spec2Model ----------------------------
(***************************************************************************)
(* MachinaWorks website: the consultation pipeline (ConsultationForm ->    *)
(* POST /api/consult -> external reasoning service | mock template) and    *)
(* the auxiliary route handlers (signup, login), as state machines.         *)
(*                                                                         *)
(* JSON objects are functions from property names to values; a property    *)
(* that is absent (undefined) carries the value UNDEFINED in a request     *)
(* body and is outside the DOMAIN of a response body.  A string built by a *)
(* template literal is the sequence of its literal and interpolated parts. *)
(***************************************************************************)
EXTENDS Naturals, Sequences, FiniteSets, TLC

\* The value of a destructured property the JSON body does not have.
UNDEFINED == "<undefined>"

(***************************************************************************)
(* Inputs of POST /api/consult                                             *)
(***************************************************************************)
ProblemValues == {UNDEFINED, "", "reduce support cost"}
IndustryValues == {UNDEFINED, "SaaS", "Retail"}
CompanySizeValues == {UNDEFINED, "SMB"}
EmailValues == {UNDEFINED, "a@b.com"}

FieldNames == {"problem", "industry", "companySize", "email"}

\* What request.json() finds in the inbound request: a JSON object; a JSON
\* number, string, boolean or array ("scalar": it parses, and destructuring it
\* leaves every property undefined); the JSON value null (parses, cannot be
\* destructured); or text that is not JSON.
ObjectBodies ==
  [kind : {"object"}, problem : ProblemValues, industry : IndustryValues,
   companySize : CompanySizeValues, email : EmailValues]

NonObjectBodies ==
  [kind : {"scalar", "null", "malformed"}, problem : {UNDEFINED}, industry : {UNDEFINED},
   companySize : {UNDEFINED}, email : {UNDEFINED}]

Bodies == ObjectBodies \cup NonObjectBodies

NoBody ==
  [kind |-> "none", problem |-> UNDEFINED, industry |-> UNDEFINED,
   companySize |-> UNDEFINED, email |-> UNDEFINED]

\* The eleven businessImpact slots the renderer binds.
StringSlots ==
  {"cost_savings", "revenue_potential", "time_savings", "roi_estimate",
   "risk_reduction", "competitive_advantage", "implementation_timeline",
   "resource_requirements"}

ListSlots == {"key_metrics", "success_factors", "potential_challenges"}

Slots == StringSlots \cup ListSlots

\* `${x}` in a template literal: a string is copied, undefined prints as the
\* nine letters "undefined".
Interpolate(x) == IF x = UNDEFINED THEN "undefined" ELSE x

\* JSON.stringify({problem, industry, companySize, email}): properties whose
\* value is undefined are dropped.
JSONStringify(body) ==
  [k \in {f \in FieldNames : body[f] # UNDEFINED} |-> body[k]]


(***************************************************************************)
(* The fallback template of POST /api/consult                              *)
(***************************************************************************)
RecommendationsTail ==
  " industry, I recommend implementing an AI-powered solution with the following components:\n\n1. **Natural Language Processing (NLP)** for automated text analysis\n2. **Machine Learning Models** for pattern recognition and prediction\n3. **Retrieval-Augmented Generation (RAG)** for context-aware responses\n4. **Automated Classification** for efficient routing\n\nKey Technologies:\n- Large Language Models (LLMs) for understanding and generation\n- Vector databases for semantic search\n- Real-time processing pipeline\n- Integration with existing systems\n\nThis solution will address your specific challenges while providing scalability and measurable business impact."

CostSavings(body) ==
  << "Expected cost reduction of 20-30% through automation. For a ",
     Interpolate(body.companySize), " company in ", Interpolate(body.industry),
     ", this typically translates to $15-25K monthly savings by reducing manual processing time and operational overhead." >>

RevenuePotential ==
  << "Revenue growth potential of 5-10% through improved efficiency and customer satisfaction. Enhanced capabilities can lead to faster service delivery and better customer retention, potentially generating an additional $10-20K monthly." >>

RoiEstimate ==
  << "Investment: $100-150K for implementation. Expected ROI: 150-200% annually. Break-even point: 6-9 months. First year savings: $180-300K." >>

ImplementationTimeline ==
  << "Total timeline: 4-6 months\n- Planning & requirements: 2-4 weeks\n- Development & integration: 8-12 weeks  \n- Testing & QA: 4-6 weeks\n- Deployment & training: 2-4 weeks" >>

KeyMetrics ==
  << "Cost per transaction reduction", "Processing time improvement",
     "Customer satisfaction score (CSAT)", "First response time (FRT)",
     "Resolution rate", "ROI percentage", "User adoption rate" >>

\* The template with a slip: an input echoed that the source does not read, a
\* figure computed from an input, the interpolations dropped.
MockResponseEchoingEmail(body) ==
  [recommendations |->
     << "Based on your problem in the ", Interpolate(body.industry), RecommendationsTail >>,
   businessImpact |->
     [cost_savings |-> CostSavings(body) \o << Interpolate(body.email) >>,
      revenue_potential |-> RevenuePotential,
      roi_estimate |-> RoiEstimate,
      implementation_timeline |-> ImplementationTimeline,
      key_metrics |-> KeyMetrics]]

MockResponseSizedRoi(body) ==
  [recommendations |->
     << "Based on your problem in the ", Interpolate(body.industry), RecommendationsTail >>,
   businessImpact |->
     [cost_savings |-> CostSavings(body),
      revenue_potential |-> RevenuePotential,
      roi_estimate |-> RoiEstimate \o << " For a ", Interpolate(body.companySize), " company." >>,
      implementation_timeline |-> ImplementationTimeline,
      key_metrics |-> KeyMetrics]]

MockResponseGeneric(body) ==
  [recommendations |->
     << "Based on your problem, I recommend implementing an AI-powered solution." >>,
   businessImpact |->
     [cost_savings |-> << "Expected cost reduction of 20-30% through automation." >>,
      revenue_potential |-> RevenuePotential,
      roi_estimate |-> RoiEstimate,
      implementation_timeline |-> ImplementationTimeline,
      key_metrics |-> KeyMetrics]]

\* const mockResponse = { recommendations: `...${industry}...`, businessImpact: {...} }
MockResponse(body) ==
  [recommendations |->
     << "Based on your problem in the ", Interpolate(body.industry), RecommendationsTail >>,
   businessImpact |->
     [cost_savings |-> CostSavings(body),
      revenue_potential |-> RevenuePotential,
      roi_estimate |-> RoiEstimate,
      implementation_timeline |-> ImplementationTimeline,
      key_metrics |-> KeyMetrics]]

\* The body of the outer catch's response.
ConsultErrorBody == [error |-> << "Failed to process consultation request" >>]

(***************************************************************************)
(* The external reasoning service (http://localhost:8000/api/consult), not *)
(* part of the repository: what it may do with one delegate call.          *)
(***************************************************************************)
\* refused: fetch rejects (connection refused, network error);
\* nonOK: a reply whose status is not 2xx; okGarbled: a 2xx reply whose body
\* is not JSON; ok: a 2xx reply with a JSON body; silent: the connection is
\* accepted and no reply is ever sent.
ServiceBehaviours == {"refused", "nonOK", "okGarbled", "ok", "silent"}

\* JSON bodies a 2xx reply may carry: a complete ConsultationResponse, one with
\* recommendations only, and the empty object.
CompleteImpact ==
  [s \in Slots |-> IF s \in ListSlots THEN << "m1", "m2" >> ELSE << "text" >>]

DelegateData ==
  { [recommendations |-> << "live analysis" >>, businessImpact |-> CompleteImpact],
    [recommendations |-> << "live analysis" >>],
    [x \in {} |-> x] }


(***************************************************************************)
(* State                                                                   *)
(***************************************************************************)
VARIABLES
  req,    \* consult route: the inbound request body of each handling
  pc,     \* consult route: where each handling stands (its pending await)
  svc,    \* what the external service does with the handling's delegate call
  calls,  \* number of fetches the handling has issued to the external service
  sent,   \* the delegate call: method, headers and JSON payload
  fail,   \* backendError: what the inner catch caught, "none" if nothing
  via,    \* which return statement answered: delegate, fallback or error
  resp,   \* the response returned to the caller
  aReq,   \* signup/login routes: the inbound request body
  aPc,    \* signup/login routes: where the handler stands
  idp,    \* what the identity service does with the handler's call
  aCalls, \* number of calls the handler has made to the identity service
  aResp,  \* signup/login routes: the response returned to the caller
  formData, \* ConsultationForm: the four fields
  loading,  \* ConsultationForm: useState(false)
  result,   \* ConsultationForm: useState(null)
  error,    \* ConsultationForm: useState('')
  dom,      \* ConsultationForm: the state the last committed render shows
  call,     \* ConsultationForm: the invocations of handleSubmit
  nCalls,   \* ConsultationForm: number of fetches issued to /api/consult
  blocked,  \* ConsultationForm: submit attempts the disabled button refused
  settled,  \* ConsultationForm: how each finished submission ended, in order
  view,     \* ConsultationForm: what the last render made of the result section
  nReq,     \* notify: the body of the request being handled
  nPc,      \* notify: "idle" or "done"
  nResp,    \* notify: the response returned
  nSent,    \* notify: the records the handler passed to an external service
  reply,    \* consult: the body the external service's reply parsed to
  pgMode,     \* AuthPage: mode
  pgLoading,  \* AuthPage: loading
  pgError,    \* AuthPage: error
  pgSuccess,  \* AuthPage: success
  pgFormData, \* AuthPage: formData
  pgCall,     \* AuthPage: the handleSubmit invocation that is at an await
  pgStorage,  \* AuthPage: localStorage's auth_token ("" when there is none)
  pgPushed,   \* AuthPage: calls of router.push('/')
  pgTimers,   \* AuthPage: the setTimeout callbacks, by submission
  pgSubmits,  \* AuthPage: submissions made
  table,       \* form_submissions: the ids of its rows
  adNextId,    \* form_submissions: the id the next inserted row gets
  adChanges,   \* form_submissions: changes made to it
  adEvents,    \* AdminDashboard: realtime events not yet delivered
  mounted,     \* AdminDashboard: the effect has run
  submissions, \* AdminDashboard: submissions
  adLoading,   \* AdminDashboard: loading
  fetches,     \* AdminDashboard: the fetchSubmissions invocations
  nFetches,    \* AdminDashboard: fetchSubmissions invocations made
  del          \* AdminDashboard: the deleteSubmission invocation at its await

gatewayVars == << req, pc, svc, calls, sent, fail, via, resp, reply >>

handlerVars == << aReq, aPc, idp, aCalls, aResp >>

notifyVars == << nReq, nPc, nResp, nSent >>

\* The state of the auxiliary endpoints: signup, login and notify.
authVars == << handlerVars, notifyVars >>

pageVars ==
  << pgMode, pgLoading, pgError, pgSuccess, pgFormData, pgCall, pgStorage, pgPushed,
     pgTimers, pgSubmits >>

adminVars ==
  << table, adNextId, adChanges, adEvents, mounted, submissions, adLoading, fetches,
     nFetches, del >>

formVars == << formData, loading, result, error, dom, call, nCalls, blocked, settled, view >>

\* Handlings of POST /api/consult that may overlap in time.
Requests == {"r1", "r2"}

EmptyObject == [x \in {} |-> x]

NoResponse == [status |-> 0, body |-> EmptyObject]

\* Whether request.json() and the destructuring of its value succeed.
Destructurable(body) == body.kind \in {"object", "scalar"}

\* No reply of the external service has been parsed.
NoReply == [parsed |-> FALSE, data |-> EmptyObject]

GatewayInit ==
  /\ req = [r \in Requests |-> NoBody]
  /\ pc = [r \in Requests |-> "idle"]
  /\ svc = [r \in Requests |-> "none"]
  /\ calls = [r \in Requests |-> 0]
  /\ sent = [r \in Requests |-> EmptyObject]
  /\ fail = [r \in Requests |-> "none"]
  /\ via = [r \in Requests |-> "none"]
  /\ resp = [r \in Requests |-> NoResponse]
  /\ reply = [r \in Requests |-> NoReply]

(***************************************************************************)
(* POST /api/consult                                                       *)
(***************************************************************************)
\* The inner catch with a slip: the failure is surfaced to the caller.
OnBackendErrorSurfaced(r, cause) ==
  /\ fail' = [fail EXCEPT ![r] = cause]
  /\ via' = [via EXCEPT ![r] = "error"]
  /\ resp' = [resp EXCEPT ![r] = [status |-> 502, body |-> ConsultErrorBody]]
  /\ pc' = [pc EXCEPT ![r] = "done"]
  /\ UNCHANGED << svc, calls, sent >>

\* The inner catch with a slip: the delegate call is attempted a second time.
OnBackendErrorRetrying(r, cause) ==
  IF calls[r] < 2
    THEN /\ calls' = [calls EXCEPT ![r] = @ + 1]
         /\ \E b \in ServiceBehaviours : svc' = [svc EXCEPT ![r] = b]
         /\ pc' = [pc EXCEPT ![r] = "fetch"]
         /\ UNCHANGED << sent, fail, via, resp >>
    ELSE /\ fail' = [fail EXCEPT ![r] = cause]
         /\ via' = [via EXCEPT ![r] = "fallback"]
         /\ resp' = [resp EXCEPT ![r] = [status |-> 200, body |-> MockResponse(req[r])]]
         /\ pc' = [pc EXCEPT ![r] = "done"]
         /\ UNCHANGED << svc, calls, sent >>

\* The inner catch with a slip: the request's fields are kept in one place
\* for all handlings, so the template is filled from the other handling's
\* request when there is one.
OnBackendErrorSharedBody(r, cause) ==
  /\ fail' = [fail EXCEPT ![r] = cause]
  /\ via' = [via EXCEPT ![r] = "fallback"]
  /\ resp' = [resp EXCEPT ![r] =
       [status |-> 200,
        body |-> MockResponse(
          IF \E q \in Requests \ {r} : Destructurable(req[q])
            THEN req[CHOOSE q \in Requests \ {r} : Destructurable(req[q])]
            ELSE req[r])]]
  /\ pc' = [pc EXCEPT ![r] = "done"]
  /\ UNCHANGED << svc, calls, sent >>

\* catch (backendError) { log } ... const mockResponse = {...};
\* return NextResponse.json(mockResponse): status 200, the template as body.
OnBackendError(r, cause) ==
  /\ fail' = [fail EXCEPT ![r] = cause]
  /\ via' = [via EXCEPT ![r] = "fallback"]
  /\ resp' = [resp EXCEPT ![r] = [status |-> 200, body |-> MockResponse(req[r])]]
  /\ pc' = [pc EXCEPT ![r] = "done"]
  /\ UNCHANGED << svc, calls, sent >>

\* response.ok with a slip: every reply is taken for a failure.
ResponseOkNever(s) == FALSE

\* response.ok: the reply's status is 2xx.
ResponseOk(s) == s \in {"ok", "okGarbled"}

\* The delegate call as the README's integration snippet writes it: the size
\* under the key company_size, and no email.
DelegateRequestPerReadme(body) ==
  [method |-> "POST",
   headers |-> [ContentType |-> "application/json"],
   body |-> [k \in {f \in {"problem", "industry", "company_size"} :
                     body[IF f = "company_size" THEN "companySize" ELSE f] # UNDEFINED}
               |-> body[IF k = "company_size" THEN "companySize" ELSE k]]]

\* fetch(url, {method: 'POST', headers: {'Content-Type': 'application/json'},
\* body: JSON.stringify({problem, industry, companySize, email})})
DelegateRequest(body) ==
  [method |-> "POST",
   headers |-> [ContentType |-> "application/json"],
   body |-> JSONStringify(body)]

\* const body = await request.json(); const {problem, industry, companySize,
\* email} = body; then fetch(...) is issued.  A body that is not JSON, or is
\* null, throws to the outer catch: status 500.
ConsultPOST(r, body) ==
  /\ pc[r] = "idle"
  /\ req' = [req EXCEPT ![r] = body]
  /\ IF Destructurable(body)
       THEN /\ calls' = [calls EXCEPT ![r] = @ + 1]
            /\ sent' = [sent EXCEPT ![r] = DelegateRequest(body)]
            /\ \E b \in ServiceBehaviours : svc' = [svc EXCEPT ![r] = b]
            /\ pc' = [pc EXCEPT ![r] = "fetch"]
            /\ UNCHANGED << fail, via, resp >>
       ELSE /\ via' = [via EXCEPT ![r] = "error"]
            /\ resp' = [resp EXCEPT ![r] = [status |-> 500, body |-> ConsultErrorBody]]
            /\ pc' = [pc EXCEPT ![r] = "done"]
            /\ UNCHANGED << svc, calls, sent, fail >>
  /\ UNCHANGED << reply, authVars, formVars, pageVars, adminVars >>

\* await fetch(...) settles: a rejection and a non-OK status both reach the
\* inner catch; an OK reply goes on to await response.json().  Nothing in the
\* handler bounds this wait: with a silent service the await never settles.
ConsultFetchSettles(r) ==
  /\ pc[r] = "fetch"
  /\ svc[r] # "silent"
  /\ IF svc[r] = "refused" THEN OnBackendError(r, "refused")
     ELSE IF ~ResponseOk(svc[r]) THEN OnBackendError(r, "nonOK")
     ELSE /\ pc' = [pc EXCEPT ![r] = "json"]
          /\ UNCHANGED << svc, calls, sent, fail, via, resp >>
  /\ UNCHANGED << req, reply, authVars, formVars, pageVars, adminVars >>

\* The delegate's success with a slip: the parsed body is laid over the
\* fallback template ({...mockResponse, ...data}).
ConsultJsonSettlesOverTemplate(r) ==
  /\ pc[r] = "json"
  /\ IF svc[r] = "okGarbled" THEN OnBackendError(r, "unparsable") /\ UNCHANGED reply
     ELSE \E data \in DelegateData :
            /\ reply' = [reply EXCEPT ![r] = [parsed |-> TRUE, data |-> data]]
            /\ via' = [via EXCEPT ![r] = "delegate"]
            /\ resp' = [resp EXCEPT ![r] =
                 [status |-> 200,
                  body |-> [k \in DOMAIN data \cup DOMAIN MockResponse(req[r]) |->
                              IF k \in DOMAIN data THEN data[k] ELSE MockResponse(req[r])[k]]]]
            /\ pc' = [pc EXCEPT ![r] = "done"]
            /\ UNCHANGED << svc, calls, sent, fail >>
  /\ UNCHANGED << req, authVars, formVars, pageVars, adminVars >>

\* await response.json() settles: a body that is not JSON reaches the inner
\* catch; otherwise return NextResponse.json(data), the parsed body as it is.
ConsultJsonSettles(r) ==
  /\ pc[r] = "json"
  /\ IF svc[r] = "okGarbled" THEN OnBackendError(r, "unparsable") /\ UNCHANGED reply
     ELSE \E data \in DelegateData :
            /\ reply' = [reply EXCEPT ![r] = [parsed |-> TRUE, data |-> data]]
            /\ via' = [via EXCEPT ![r] = "delegate"]
            /\ resp' = [resp EXCEPT ![r] = [status |-> 200, body |-> data]]
            /\ pc' = [pc EXCEPT ![r] = "done"]
            /\ UNCHANGED << svc, calls, sent, fail >>
  /\ UNCHANGED << req, authVars, formVars, pageVars, adminVars >>

(***************************************************************************)
(* POST /api/auth/signup and POST /api/auth/login                          *)
(***************************************************************************)
Handlers == {"signup", "login"}

AuthEmailValues == {UNDEFINED, "", "a@b.com"}
PasswordValues == {UNDEFINED, "secret"}
FullNameValues == {UNDEFINED, "Ann"}

\* What request.json() finds in a signup request.
SignupBodies ==
  [kind : {"object"}, email : AuthEmailValues, password : PasswordValues,
   fullName : FullNameValues]
  \cup [kind : {"scalar", "null", "malformed"}, email : {UNDEFINED}, password : {UNDEFINED},
        fullName : {UNDEFINED}]

\* What request.json() finds in a login request (fullName is not read).
LoginBodies == {b \in SignupBodies : b.fullName = UNDEFINED}

NoAuthBody ==
  [kind |-> "none", email |-> UNDEFINED, password |-> UNDEFINED, fullName |-> UNDEFINED]

\* The identity service (Supabase auth), not part of the repository: it
\* returns {error} with or without a message, returns data with a user,
\* returns data without a user, or the client call throws.
IdpBehaviours == {"error", "errorNoMessage", "user", "noUser", "throws"}

IdpErrorMessage(b) == IF b = "error" THEN "User already registered" ELSE ""

NULL == "<null>"

IdpUser(b) == IF b = "user" THEN "user-1" ELSE NULL

IdpSession(b) == IF b = "user" THEN "session-1" ELSE NULL

\* !x for the values a field can take: undefined, null and '' are falsy.
Falsy(x) == x \in {UNDEFINED, NULL, ""}

\* a || b with a slip: the default is always taken.
OrElseDefault(a, b) == b

\* a || b on strings.
OrElse(a, b) == IF Falsy(a) THEN b ELSE a

\* String(error) of what request.json() or the destructuring threw.
ExceptionText(kind) ==
  IF kind = "malformed" THEN "SyntaxError: Unexpected token in JSON"
  ELSE "TypeError: Cannot destructure property 'email' of null"

InternalError(text) ==
  [status |-> 500, body |-> [error |-> << "Internal server error: ", text >>]]

\* A formData object as the contact forms send it, and a type that is not a
\* string.
FORMDATA == "<object with email>"
NUMBER == "<number 7>"

\* What request.json() finds in a notify request.
NotifyBodies ==
  [kind : {"object"}, formData : {UNDEFINED, NULL, FORMDATA},
   type : {UNDEFINED, "", "contact", NUMBER}]
  \cup [kind : {"scalar", "null", "malformed"}, formData : {UNDEFINED}, type : {UNDEFINED}]

NoNotifyBody == [kind |-> "none", formData |-> UNDEFINED, type |-> UNDEFINED]

AuthInit ==
  /\ aReq = [h \in Handlers |-> NoAuthBody]
  /\ aPc = [h \in Handlers |-> "idle"]
  /\ idp = [h \in Handlers |-> "none"]
  /\ aCalls = [h \in Handlers |-> 0]
  /\ aResp = [h \in Handlers |-> NoResponse]
  /\ nReq = NoNotifyBody
  /\ nPc = "idle"
  /\ nResp = NoResponse
  /\ nSent = << >>

\* A handler returns: NextResponse.json(body, {status}).
AuthReturn(h, response) ==
  /\ aResp' = [aResp EXCEPT ![h] = response]
  /\ aPc' = [aPc EXCEPT ![h] = "done"]

\* supabase.auth.signUp / signInWithPassword is called, once.
AuthCall(h) ==
  /\ aCalls' = [aCalls EXCEPT ![h] = @ + 1]
  /\ \E b \in IdpBehaviours : idp' = [idp EXCEPT ![h] = b]
  /\ aPc' = [aPc EXCEPT ![h] = "await"]
  /\ UNCHANGED aResp

\* signup with a slip: the validation does not look at fullName.
SignupPOSTWithoutFullNameCheck(body) ==
  /\ aPc["signup"] = "idle"
  /\ aReq' = [aReq EXCEPT !["signup"] = body]
  /\ IF ~Destructurable(body)
       THEN AuthReturn("signup", InternalError(ExceptionText(body.kind)))
            /\ UNCHANGED << idp, aCalls >>
     ELSE IF Falsy(body.email) \/ Falsy(body.password)
       THEN AuthReturn("signup",
              [status |-> 400, body |-> [error |-> << "Missing required fields" >>]])
            /\ UNCHANGED << idp, aCalls >>
     ELSE AuthCall("signup")
  /\ UNCHANGED << gatewayVars, formVars, notifyVars, pageVars, adminVars >>

\* signup: const {email, password, fullName} = await request.json(); the
\* validation; then the call to supabase.auth.signUp.
SignupPOST(body) ==
  /\ aPc["signup"] = "idle"
  /\ aReq' = [aReq EXCEPT !["signup"] = body]
  /\ IF ~Destructurable(body)
       THEN AuthReturn("signup", InternalError(ExceptionText(body.kind)))
            /\ UNCHANGED << idp, aCalls >>
     ELSE IF Falsy(body.email) \/ Falsy(body.password) \/ Falsy(body.fullName)
       THEN AuthReturn("signup",
              [status |-> 400, body |-> [error |-> << "Missing required fields" >>]])
            /\ UNCHANGED << idp, aCalls >>
     ELSE AuthCall("signup")
  /\ UNCHANGED << gatewayVars, formVars, notifyVars, pageVars, adminVars >>

\* signup settling with a slip: the success is answered with status 200.
SignupSettlesAnswering200 ==
  /\ aPc["signup"] = "await"
  /\ IF idp["signup"] = "throws"
       THEN AuthReturn("signup", InternalError("TypeError: fetch failed"))
     ELSE IF idp["signup"] \in {"error", "errorNoMessage"}
       THEN AuthReturn("signup",
              [status |-> 400,
               body |-> [error |-> << OrElse(IdpErrorMessage(idp["signup"]), "Signup failed") >>]])
     ELSE AuthReturn("signup",
            [status |-> 200,
             body |-> [success |-> TRUE, user |-> IdpUser(idp["signup"]),
                       message |-> << "Signup successful!" >>]])
  /\ UNCHANGED << aReq, idp, aCalls, gatewayVars, formVars, notifyVars, pageVars, adminVars >>

\* signup: await supabase.auth.signUp(...) settles.
SignupSettles ==
  /\ aPc["signup"] = "await"
  /\ IF idp["signup"] = "throws"
       THEN AuthReturn("signup", InternalError("TypeError: fetch failed"))
     ELSE IF idp["signup"] \in {"error", "errorNoMessage"}
       THEN AuthReturn("signup",
              [status |-> 400,
               body |-> [error |-> << OrElse(IdpErrorMessage(idp["signup"]), "Signup failed") >>]])
     ELSE AuthReturn("signup",
            [status |-> 201,
             body |-> [success |-> TRUE, user |-> IdpUser(idp["signup"]),
                       message |-> << "Signup successful!" >>]])
  /\ UNCHANGED << aReq, idp, aCalls, gatewayVars, formVars, notifyVars, pageVars, adminVars >>

\* login: const {email, password} = await request.json(); the validation;
\* then the call to supabase.auth.signInWithPassword.
LoginPOST(body) ==
  /\ aPc["login"] = "idle"
  /\ aReq' = [aReq EXCEPT !["login"] = body]
  /\ IF ~Destructurable(body)
       THEN AuthReturn("login", InternalError(ExceptionText(body.kind)))
            /\ UNCHANGED << idp, aCalls >>
     ELSE IF Falsy(body.email) \/ Falsy(body.password)
       THEN AuthReturn("login",
              [status |-> 400, body |-> [error |-> << "Email and password are required" >>]])
            /\ UNCHANGED << idp, aCalls >>
     ELSE AuthCall("login")
  /\ UNCHANGED << gatewayVars, formVars, notifyVars, pageVars, adminVars >>

\* login: await supabase.auth.signInWithPassword(...) settles.
LoginSettles ==
  /\ aPc["login"] = "await"
  /\ IF idp["login"] = "throws"
       THEN AuthReturn("login", InternalError("TypeError: fetch failed"))
     ELSE IF idp["login"] \in {"error", "errorNoMessage"}
       THEN AuthReturn("login",
              [status |-> 401,
               body |-> [error |-> << OrElse(IdpErrorMessage(idp["login"]),
                                             "Invalid email or password") >>]])
     ELSE IF IdpUser(idp["login"]) = NULL
       THEN AuthReturn("login",
              [status |-> 401, body |-> [error |-> << "Login failed - no user data" >>]])
     ELSE AuthReturn("login",
            [status |-> 200,
             body |-> [success |-> TRUE, user |-> IdpUser(idp["login"]),
                       session |-> IdpSession(idp["login"])]])
  /\ UNCHANGED << aReq, idp, aCalls, gatewayVars, formVars, notifyVars, pageVars, adminVars >>

(***************************************************************************)
(* ConsultationForm (client component)                                     *)
(***************************************************************************)
\* Submit activations by the user (clicks on the button, Enter in a field)
\* that one run of the form considers.
MaxAttempts == 3

CallIds == 1..MaxAttempts

FormFieldValues ==
  [problem : {"", "reduce support cost"}, industry : {"", "SaaS"},
   companySize : {"", "SMB"}, email : {"", "a@b.com"}]

\* useState(null) / setResult(data)
NoResult == [set |-> FALSE, data |-> EmptyObject]

NoCall ==
  [pc |-> "none",
   body |-> [problem |-> "", industry |-> "", companySize |-> "", email |-> ""]]

ErrorMessage == "Failed to process consultation. Please try again."

\* What a committed render shows of the component's state.
Rendered(l, res, err) == [loading |-> l, result |-> res, error |-> err]

(***************************************************************************)
(* The Business Impact renderer: the JSX under {result && (...)}           *)
(***************************************************************************)
\* The blocks of the card, top to bottom.
DisplayOrder ==
  << "cost_savings", "revenue_potential", "time_savings", "roi_estimate",
     "risk_reduction", "competitive_advantage", "implementation_timeline",
     "resource_requirements", "key_metrics", "success_factors",
     "potential_challenges" >>

\* The list l without the later copies of an element.
Deduplicated(l) ==
  LET f[i \in 0..Len(l)] ==
        IF i = 0 THEN << >>
        ELSE IF \E j \in 1..(i - 1) : l[j] = l[i] THEN f[i - 1]
        ELSE Append(f[i - 1], l[i])
  IN f[Len(l)]

\* The list rendering with a slip: repeated elements are shown once.
RenderListDeduplicated(l) ==
  [i \in 1..Len(Deduplicated(l)) |-> [key |-> i - 1, text |-> Deduplicated(l)[i]]]

\* list.map((x, index) => <li key={index}>...<span>{x}</span></li>)
RenderList(l) == [i \in 1..Len(l) |-> [key |-> i - 1, text |-> l[i]]]

\* undefined.map(...) is a TypeError: a list-valued slot that is absent makes
\* the render throw.  An absent string-valued slot renders as no text.
RenderThrows(impact) == \E s \in ListSlots : s \notin DOMAIN impact

\* One block: its heading is fixed markup; its content is the slot's text, or
\* one bullet per element of the slot's list.
RenderBlock(impact, s) ==
  IF s \in ListSlots
    THEN [slot |-> s, content |-> << >>, bullets |-> RenderList(impact[s])]
    ELSE [slot |-> s,
          content |-> IF s \in DOMAIN impact THEN impact[s] ELSE << >>,
          bullets |-> << >>]

\* {result && (...)} not rendered: result is null.
NoView == [crashed |-> FALSE, shown |-> FALSE, recommendations |-> << >>, blocks |-> << >>]

\* The render threw; without an error boundary React unmounts the tree.
CrashedView == [crashed |-> TRUE, shown |-> FALSE, recommendations |-> << >>, blocks |-> << >>]

\* The result section for the component's result state.
RenderView(res) ==
  IF ~res.set THEN NoView
  ELSE IF "businessImpact" \in DOMAIN res.data /\ RenderThrows(res.data.businessImpact)
    THEN CrashedView
  ELSE [crashed |-> FALSE,
        shown |-> TRUE,
        recommendations |->
          IF "recommendations" \in DOMAIN res.data THEN res.data.recommendations ELSE << >>,
        blocks |->
          IF "businessImpact" \in DOMAIN res.data
            THEN [i \in 1..Len(DisplayOrder) |->
                    RenderBlock(res.data.businessImpact, DisplayOrder[i])]
            ELSE << >>]

FormInit ==
  /\ formData = [problem |-> "", industry |-> "", companySize |-> "", email |-> ""]
  /\ loading = FALSE
  /\ result = NoResult
  /\ error = ""
  /\ dom = Rendered(FALSE, NoResult, "")
  /\ call = [c \in CallIds |-> NoCall]
  /\ nCalls = 0
  /\ blocked = 0
  /\ settled = << >>
  /\ view = NoView

\* The inbound body the consult route parses from JSON.stringify(formData).
GatewayBody(fd) ==
  [kind |-> "object", problem |-> fd.problem, industry |-> fd.industry,
   companySize |-> fd.companySize, email |-> fd.email]

\* The 200 bodies the consult route can answer a form submission with.
ConsultOkBodies(fd) == {MockResponse(GatewayBody(fd))} \cup DelegateData

\* The submit button without its disabled attribute.
SubmitEnabledAlways(d) == TRUE

\* <button type="submit" disabled={loading}>: a disabled default button
\* neither fires a click nor lets Enter submit the form.
SubmitEnabled(d) == ~d.loading

\* The required attributes of the textarea, the select and the email input;
\* the companySize buttons carry none.
PassesValidation(fd) == fd.problem # "" /\ fd.industry # "" /\ fd.email # ""

\* onChange / onClick of a field: setFormData({...formData, [f]: v}).
ChangeField(f, v) ==
  /\ ~view.crashed
  /\ formData[f] # v
  /\ formData' = [formData EXCEPT ![f] = v]
  /\ UNCHANGED << loading, result, error, dom, call, nCalls, blocked, settled, view >>
  /\ UNCHANGED << gatewayVars, authVars, pageVars, adminVars >>

\* handleSubmit with a slip: setResult(null) is left out.
HandleSubmitKeepingResult ==
  /\ ~view.crashed
  /\ nCalls + blocked < MaxAttempts
  /\ SubmitEnabled(dom)
  /\ PassesValidation(formData)
  /\ loading' = TRUE
  /\ error' = ""
  /\ nCalls' = nCalls + 1
  /\ call' = [call EXCEPT ![nCalls + 1] = [pc |-> "fetch", body |-> formData]]
  /\ dom' = Rendered(TRUE, result, "")
  /\ view' = RenderView(result)
  /\ UNCHANGED << formData, blocked, settled, result >>
  /\ UNCHANGED << gatewayVars, authVars, pageVars, adminVars >>

\* The user activates submit and the browser dispatches the submit event:
\* handleSubmit runs to its first await (setLoading(true), setError(''),
\* setResult(null), fetch issued).  React commits the updates of a discrete
\* event before the browser dispatches the next event, so the render is part
\* of this step.
HandleSubmit ==
  /\ ~view.crashed
  /\ nCalls + blocked < MaxAttempts
  /\ SubmitEnabled(dom)
  /\ PassesValidation(formData)
  /\ loading' = TRUE
  /\ error' = ""
  /\ result' = NoResult
  /\ nCalls' = nCalls + 1
  /\ call' = [call EXCEPT ![nCalls + 1] = [pc |-> "fetch", body |-> formData]]
  /\ dom' = Rendered(TRUE, NoResult, "")
  /\ view' = RenderView(NoResult)
  /\ UNCHANGED << formData, blocked, settled >>
  /\ UNCHANGED << gatewayVars, authVars, pageVars, adminVars >>

\* The user activates submit while the button is disabled: no event reaches
\* handleSubmit.
SubmitRefused ==
  /\ ~view.crashed
  /\ nCalls + blocked < MaxAttempts
  /\ ~SubmitEnabled(dom)
  /\ blocked' = blocked + 1
  /\ UNCHANGED << formData, loading, result, error, dom, call, nCalls, settled, view >>
  /\ UNCHANGED << gatewayVars, authVars, pageVars, adminVars >>

\* The catch with a slip: no finally, loading is left true.
FormCatchWithoutFinally(c) ==
  /\ error' = ErrorMessage
  /\ call' = [call EXCEPT ![c] = NoCall]
  /\ settled' = Append(settled, "failure")
  /\ UNCHANGED << result, loading >>

\* catch (err) { setError(...) } finally { setLoading(false) }
FormCatch(c) ==
  /\ error' = ErrorMessage
  /\ loading' = FALSE
  /\ call' = [call EXCEPT ![c] = NoCall]
  /\ settled' = Append(settled, "failure")
  /\ UNCHANGED result

\* await fetch('/api/consult') settles: a rejection and a non-2xx status reach
\* the catch; a 2xx reply goes on to await response.json().
FormFetchSettles(c, outcome) ==
  /\ call[c].pc = "fetch"
  /\ IF outcome \in {"rejected", "non2xx"} THEN FormCatch(c)
     ELSE /\ call' = [call EXCEPT ![c].pc = "json"]
          /\ UNCHANGED << loading, result, error, settled >>
  /\ UNCHANGED << formData, dom, nCalls, blocked, view >>
  /\ UNCHANGED << gatewayVars, authVars, pageVars, adminVars >>

\* await response.json() rejects: the catch, then the finally.
FormJsonRejects(c) ==
  /\ call[c].pc = "json"
  /\ FormCatch(c)
  /\ UNCHANGED << formData, dom, nCalls, blocked, view >>
  /\ UNCHANGED << gatewayVars, authVars, pageVars, adminVars >>

\* await response.json() resolves: setResult(data), then the finally.
FormJsonResolves(c, data) ==
  /\ call[c].pc = "json"
  /\ data \in ConsultOkBodies(call[c].body)
  /\ result' = [set |-> TRUE, data |-> data]
  /\ loading' = FALSE
  /\ call' = [call EXCEPT ![c] = NoCall]
  /\ settled' = Append(settled, "success")
  /\ UNCHANGED << error, formData, dom, nCalls, blocked, view >>
  /\ UNCHANGED << gatewayVars, authVars, pageVars, adminVars >>

\* React renders with the updates made after an await (setResult or setError
\* and setLoading(false) are batched into one render) and commits it, unless
\* the render throws.
Render ==
  /\ ~view.crashed
  /\ dom # Rendered(loading, result, error)
  /\ dom' = Rendered(loading, result, error)
  /\ view' = RenderView(result)
  /\ UNCHANGED << formData, loading, result, error, call, nCalls, blocked, settled >>
  /\ UNCHANGED << gatewayVars, authVars, pageVars, adminVars >>

(***************************************************************************)
(* AuthPage (client component)                                             *)
(***************************************************************************)
\* Submissions of the auth form that one run of the page considers.
MaxSubmits == 2
SubmitIds == 1..MaxSubmits

Modes == {"login", "signup"}

EmptyAuthForm == [email |-> "", password |-> "", fullName |-> ""]

AuthFormValues == [email : {"", "a@b.com"}, password : {"", "secret"}, fullName : {"", "Ann"}]

NoPageCall == [pc |-> "none", mode |-> "login", ok |-> FALSE, id |-> 0]

NoTimer == [state |-> "none", mode |-> "login"]

\* What response.json() gives the page: it rejects, or resolves to null or to
\* an object that may hold an error message and a session.
PageData ==
  [kind : {"object"}, error : {UNDEFINED, "Invalid login credentials"},
   session : {UNDEFINED, "token-1"}]
  \cup [kind : {"null", "unparsable"}, error : {UNDEFINED}, session : {UNDEFINED}]

SuccessMessage(m) ==
  IF m = "login" THEN "Login successful! Redirecting..."
  ELSE "Signup successful! Check your email to verify."

PageErrorMessage == "An error occurred. Please try again."

PageInit ==
  /\ pgMode = "login"
  /\ pgLoading = FALSE
  /\ pgError = ""
  /\ pgSuccess = ""
  /\ pgFormData = EmptyAuthForm
  /\ pgCall = NoPageCall
  /\ pgStorage = ""
  /\ pgPushed = 0
  /\ pgTimers = [i \in SubmitIds |-> NoTimer]
  /\ pgSubmits = 0

\* router.push('/') has left the page: the user acts on it no more.
OnPage == pgPushed = 0

\* handleChange: setFormData({...formData, [name]: value})
PageHandleChange(f, v) ==
  /\ OnPage
  /\ pgFormData[f] # v
  /\ pgFormData' = [pgFormData EXCEPT ![f] = v]
  /\ UNCHANGED << pgMode, pgLoading, pgError, pgSuccess, pgCall, pgStorage, pgPushed,
                  pgTimers, pgSubmits >>
  /\ UNCHANGED << gatewayVars, authVars, formVars, adminVars >>

\* The toggle button: setMode(the other mode); setError(''); setSuccess('')
PageToggle ==
  /\ OnPage
  /\ pgMode' = IF pgMode = "login" THEN "signup" ELSE "login"
  /\ pgError' = ""
  /\ pgSuccess' = ""
  /\ UNCHANGED << pgLoading, pgFormData, pgCall, pgStorage, pgPushed, pgTimers, pgSubmits >>
  /\ UNCHANGED << gatewayVars, authVars, formVars, adminVars >>

\* The inputs' constraints: email and password required, fullName required
\* where it is rendered (signup mode).
PagePassesValidation ==
  /\ pgFormData.email # ""
  /\ pgFormData.password # ""
  /\ pgMode = "signup" => pgFormData.fullName # ""

\* handleSubmit up to await fetch(endpoint, ...): the endpoint is chosen by
\* the mode of the render the handler belongs to, which the invocation keeps
\* for all it does later.  The button is disabled while loading.
PageHandleSubmit ==
  /\ OnPage
  /\ pgSubmits < MaxSubmits
  /\ ~pgLoading
  /\ PagePassesValidation
  /\ pgLoading' = TRUE
  /\ pgError' = ""
  /\ pgSuccess' = ""
  /\ pgSubmits' = pgSubmits + 1
  /\ pgCall' = [pc |-> "fetch", mode |-> pgMode, ok |-> FALSE, id |-> pgSubmits + 1]
  /\ UNCHANGED << pgMode, pgFormData, pgStorage, pgPushed, pgTimers >>
  /\ UNCHANGED << gatewayVars, authVars, formVars, adminVars >>

\* catch (err) { setError('An error occurred...') } finally { setLoading(false) }
PageCatch ==
  /\ pgError' = PageErrorMessage
  /\ pgLoading' = FALSE
  /\ pgCall' = NoPageCall

\* await fetch(...) settles: rejected, or a response with or without ok.
PageFetchSettles(outcome) ==
  /\ pgCall.pc = "fetch"
  /\ IF outcome = "rejected"
       THEN PageCatch
       ELSE /\ pgCall' = [pgCall EXCEPT !.pc = "json", !.ok = (outcome = "ok")]
            /\ UNCHANGED << pgError, pgLoading >>
  /\ UNCHANGED << pgMode, pgSuccess, pgFormData, pgStorage, pgPushed, pgTimers, pgSubmits >>
  /\ UNCHANGED << gatewayVars, authVars, formVars, adminVars >>

\* The mode a timer callback acts on, with a slip: the mode at the time the
\* timer fires.
TimerModeAtFiring(t) == pgMode

\* The mode a timer callback acts on: the mode of the handleSubmit invocation
\* that created it.
TimerMode(t) == t.mode

\* The end of handleSubmit with a slip: response.ok is not looked at.
PageJsonSettlesIgnoringStatus(data) ==
  /\ pgCall.pc = "json"
  /\ IF data.kind = "unparsable"
       THEN PageCatch /\ UNCHANGED << pgSuccess, pgStorage, pgTimers >>
     ELSE IF FALSE
       THEN IF data.kind = "null"
              THEN PageCatch /\ UNCHANGED << pgSuccess, pgStorage, pgTimers >>
              ELSE /\ pgError' = OrElse(data.error, "Authentication failed")
                   /\ pgLoading' = FALSE
                   /\ pgCall' = NoPageCall
                   /\ UNCHANGED << pgSuccess, pgStorage, pgTimers >>
     ELSE IF data.kind = "null"
       THEN /\ pgSuccess' = SuccessMessage(pgCall.mode)
            /\ PageCatch
            /\ UNCHANGED << pgStorage, pgTimers >>
     ELSE /\ pgSuccess' = SuccessMessage(pgCall.mode)
          /\ pgStorage' = IF Falsy(data.session) THEN pgStorage ELSE data.session
          /\ pgTimers' = [pgTimers EXCEPT ![pgCall.id] = [state |-> "pending", mode |-> pgCall.mode]]
          /\ pgLoading' = FALSE
          /\ pgCall' = NoPageCall
          /\ UNCHANGED pgError
  /\ UNCHANGED << pgMode, pgFormData, pgPushed, pgSubmits >>
  /\ UNCHANGED << gatewayVars, authVars, formVars, adminVars >>

\* await response.json() settles and handleSubmit runs to its end.  Reading
\* data.error or data.session of null throws to the catch; in the ok case
\* setSuccess has been called by then.
PageJsonSettles(data) ==
  /\ pgCall.pc = "json"
  /\ IF data.kind = "unparsable"
       THEN PageCatch /\ UNCHANGED << pgSuccess, pgStorage, pgTimers >>
     ELSE IF ~pgCall.ok
       THEN IF data.kind = "null"
              THEN PageCatch /\ UNCHANGED << pgSuccess, pgStorage, pgTimers >>
              ELSE /\ pgError' = OrElse(data.error, "Authentication failed")
                   /\ pgLoading' = FALSE
                   /\ pgCall' = NoPageCall
                   /\ UNCHANGED << pgSuccess, pgStorage, pgTimers >>
     ELSE IF data.kind = "null"
       THEN /\ pgSuccess' = SuccessMessage(pgCall.mode)
            /\ PageCatch
            /\ UNCHANGED << pgStorage, pgTimers >>
     ELSE /\ pgSuccess' = SuccessMessage(pgCall.mode)
          /\ pgStorage' = IF Falsy(data.session) THEN pgStorage ELSE data.session
          /\ pgTimers' = [pgTimers EXCEPT ![pgCall.id] = [state |-> "pending", mode |-> pgCall.mode]]
          /\ pgLoading' = FALSE
          /\ pgCall' = NoPageCall
          /\ UNCHANGED pgError
  /\ UNCHANGED << pgMode, pgFormData, pgPushed, pgSubmits >>
  /\ UNCHANGED << gatewayVars, authVars, formVars, adminVars >>

\* The setTimeout callback runs, 1.5 s after it was set: router.push('/'), or
\* setMode('login') and setFormData of empty fields.
PageTimerFires(i) ==
  /\ pgTimers[i].state = "pending"
  /\ pgTimers' = [pgTimers EXCEPT ![i].state = "fired"]
  /\ IF TimerMode(pgTimers[i]) = "login"
       THEN /\ pgPushed' = pgPushed + 1
            /\ UNCHANGED << pgMode, pgFormData >>
       ELSE /\ pgMode' = "login"
            /\ pgFormData' = EmptyAuthForm
            /\ UNCHANGED pgPushed
  /\ UNCHANGED << pgLoading, pgError, pgSuccess, pgCall, pgStorage, pgSubmits >>
  /\ UNCHANGED << gatewayVars, authVars, formVars, adminVars >>

(***************************************************************************)
(* AdminDashboard (client component) and the form_submissions table        *)
(***************************************************************************)
\* fetchSubmissions invocations and table changes that one run considers.
MaxFetches == 3
MaxChanges == 2
FetchIds == 1..MaxFetches

\* .order('created_at', {ascending: false}): rows get increasing ids as they
\* are created, so the newest row is the one with the largest id.
SortDesc(S) ==
  LET f[T \in SUBSET S] ==
        IF T = {} THEN << >>
        ELSE LET m == CHOOSE x \in T : \A y \in T : y <= x
             IN << m >> \o f[T \ {m}]
  IN f[S]

\* submissions.filter(s => s.id !== id)
Without(list, id) == SelectSeq(list, LAMBDA x : x # id)

NoFetch == [pc |-> "none", ok |-> FALSE, data |-> << >>]

NoDelete == [pc |-> "none", id |-> 0, ok |-> FALSE, closure |-> << >>]

\* The component before its effect has run; the table has one row.
AdminInit ==
  /\ table = {1}
  /\ adNextId = 2
  /\ adChanges = 0
  /\ adEvents = 0
  /\ mounted = FALSE
  /\ submissions = << >>
  /\ adLoading = TRUE
  /\ fetches = [f \in FetchIds |-> NoFetch]
  /\ nFetches = 0
  /\ del = NoDelete

\* fetchSubmissions up to its await: setLoading(true), the select is sent.
FetchSubmissions ==
  /\ nFetches < MaxFetches
  /\ nFetches' = nFetches + 1
  /\ fetches' = [fetches EXCEPT ![nFetches + 1] = [pc |-> "query", ok |-> FALSE, data |-> << >>]]
  /\ adLoading' = TRUE

\* useEffect(() => { fetchSubmissions(); subscribe }, [])
AdminMount ==
  /\ ~mounted
  /\ mounted' = TRUE
  /\ FetchSubmissions
  /\ UNCHANGED << table, adNextId, adChanges, adEvents, submissions, del >>
  /\ UNCHANGED << gatewayVars, authVars, formVars, pageVars >>

\* The subscription's callback: () => fetchSubmissions()
RealtimeEvent ==
  /\ mounted
  /\ adEvents > 0
  /\ adEvents' = adEvents - 1
  /\ FetchSubmissions
  /\ UNCHANGED << table, adNextId, adChanges, mounted, submissions, del >>
  /\ UNCHANGED << gatewayVars, authVars, formVars, pageVars >>

\* A row is inserted into form_submissions by someone else; a subscribed
\* dashboard is sent a postgres_changes event.
TableInsert ==
  /\ adChanges < MaxChanges
  /\ table' = table \cup {adNextId}
  /\ adNextId' = adNextId + 1
  /\ adChanges' = adChanges + 1
  /\ adEvents' = IF mounted THEN adEvents + 1 ELSE adEvents
  /\ UNCHANGED << mounted, submissions, adLoading, fetches, nFetches, del >>
  /\ UNCHANGED << gatewayVars, authVars, formVars, pageVars >>

\* The database answers a select: the rows it has then, or an error.
SelectAnswered(f, ok) ==
  /\ fetches[f].pc = "query"
  /\ fetches' = [fetches EXCEPT ![f] =
       [pc |-> "reply", ok |-> ok, data |-> IF ok THEN SortDesc(table) ELSE << >>]]
  /\ UNCHANGED << table, adNextId, adChanges, adEvents, mounted, submissions, adLoading,
                  nFetches, del >>
  /\ UNCHANGED << gatewayVars, authVars, formVars, pageVars >>

\* The await of fetchSubmissions settles: if (error) throw error;
\* setSubmissions(data || []); catch: log; finally: setLoading(false).
FetchSubmissionsSettles(f) ==
  /\ fetches[f].pc = "reply"
  /\ submissions' = IF fetches[f].ok THEN fetches[f].data ELSE submissions
  /\ adLoading' = FALSE
  /\ fetches' = [fetches EXCEPT ![f].pc = "done"]
  /\ UNCHANGED << table, adNextId, adChanges, adEvents, mounted, nFetches, del >>
  /\ UNCHANGED << gatewayVars, authVars, formVars, pageVars >>

\* The delete button of a displayed row: deleteSubmission(id) up to its
\* await.  The invocation belongs to the render that showed the button and
\* keeps that render's submissions.
DeleteSubmission(id) ==
  /\ mounted
  /\ del.pc = "none"
  /\ adChanges < MaxChanges
  /\ \E i \in 1..Len(submissions) : submissions[i] = id
  /\ del' = [pc |-> "sent", id |-> id, ok |-> FALSE, closure |-> submissions]
  /\ UNCHANGED << table, adNextId, adChanges, adEvents, mounted, submissions, adLoading,
                  fetches, nFetches >>
  /\ UNCHANGED << gatewayVars, authVars, formVars, pageVars >>

\* The database answers the delete: the row is removed (and an event is sent
\* if a row was there), or an error.
DeleteAnswered(ok) ==
  /\ del.pc = "sent"
  /\ del' = [del EXCEPT !.pc = "reply", !.ok = ok]
  /\ IF ok
       THEN /\ table' = table \ {del.id}
            /\ adChanges' = adChanges + 1
            /\ adEvents' = IF del.id \in table THEN adEvents + 1 ELSE adEvents
       ELSE UNCHANGED << table, adChanges, adEvents >>
  /\ UNCHANGED << adNextId, mounted, submissions, adLoading, fetches, nFetches >>
  /\ UNCHANGED << gatewayVars, authVars, formVars, pageVars >>

\* The await of deleteSubmission settles: if (error) throw error;
\* setSubmissions(submissions.filter(s => s.id !== id)); catch: log.
DeleteSubmissionSettles ==
  /\ del.pc = "reply"
  /\ submissions' = IF del.ok THEN Without(del.closure, del.id) ELSE submissions
  /\ del' = NoDelete
  /\ UNCHANGED << table, adNextId, adChanges, adEvents, mounted, adLoading, fetches,
                  nFetches >>
  /\ UNCHANGED << gatewayVars, authVars, formVars, pageVars >>

(***************************************************************************)
(* POST /api/forms/notify                                                  *)
(***************************************************************************)
\* const {formData, type} = await request.json(); the validation; the
\* submission is logged (type.toUpperCase() throws for a type that is not a
\* string) and acknowledged.  Whatever is thrown reaches the catch: 500.
\* The handler calls nothing but console.log: no record leaves the process.
NotifyPOST(body) ==
  /\ nPc = "idle"
  /\ nReq' = body
  /\ nPc' = "done"
  /\ nResp' =
       IF ~Destructurable(body)
         THEN [status |-> 500, body |-> [error |-> << "Failed to process submission" >>]]
       ELSE IF Falsy(body.formData) \/ Falsy(body.type)
         THEN [status |-> 400, body |-> [error |-> << "Missing required fields" >>]]
       ELSE IF body.type = NUMBER
         THEN [status |-> 500, body |-> [error |-> << "Failed to process submission" >>]]
       ELSE [status |-> 200,
             body |-> [success |-> TRUE, message |-> << "Submission received" >>]]
  /\ UNCHANGED nSent
  /\ UNCHANGED << gatewayVars, formVars, handlerVars, pageVars, adminVars >>

(***************************************************************************)
(* Specifications                                                          *)
(***************************************************************************)
vars == << gatewayVars, authVars, formVars, pageVars, adminVars >>

Init == GatewayInit /\ AuthInit /\ FormInit /\ PageInit /\ AdminInit

\* The consult route handling two requests that may overlap.
Next ==
  \/ \E r \in Requests, body \in Bodies : ConsultPOST(r, body)
  \/ \E r \in Requests : ConsultFetchSettles(r)
  \/ \E r \in Requests : ConsultJsonSettles(r)

Spec == Init /\ [][Next]_vars

\* The three route handlers that call an external service, one request each.
ServerNext ==
  \/ \E body \in Bodies : ConsultPOST("r1", body)
  \/ ConsultFetchSettles("r1")
  \/ ConsultJsonSettles("r1")
  \/ \E body \in SignupBodies : SignupPOST(body)
  \/ SignupSettles
  \/ \E body \in LoginBodies : LoginPOST(body)
  \/ LoginSettles

ServerSpec == Init /\ [][ServerNext]_vars

\* The auxiliary endpoints, one request each.
AuxNext ==
  \/ \E body \in SignupBodies : SignupPOST(body)
  \/ SignupSettles
  \/ \E body \in LoginBodies : LoginPOST(body)
  \/ LoginSettles
  \/ \E body \in NotifyBodies : NotifyPOST(body)

AuxSpec == Init /\ [][AuxNext]_vars

\* One AuthPage in a browser tab.
PageNext ==
  \/ \E f \in DOMAIN pgFormData, v \in {"", "a@b.com", "secret", "Ann"} :
       [pgFormData EXCEPT ![f] = v] \in AuthFormValues /\ PageHandleChange(f, v)
  \/ PageToggle
  \/ PageHandleSubmit
  \/ \E outcome \in {"rejected", "non2xx", "ok"} : PageFetchSettles(outcome)
  \/ \E data \in PageData : PageJsonSettles(data)
  \/ \E i \in SubmitIds : PageTimerFires(i)

PageSpec == Init /\ [][PageNext]_vars

\* One AdminDashboard in a browser tab, and the table it shows.
AdminNext ==
  \/ AdminMount
  \/ RealtimeEvent
  \/ TableInsert
  \/ \E f \in FetchIds, ok \in BOOLEAN : SelectAnswered(f, ok)
  \/ \E f \in FetchIds : FetchSubmissionsSettles(f)
  \/ \E id \in table \cup {1} : DeleteSubmission(id)
  \/ \E ok \in BOOLEAN : DeleteAnswered(ok)
  \/ DeleteSubmissionSettles

AdminSpec == Init /\ [][AdminNext]_vars

\* One ConsultationForm in a browser tab.
FormNext ==
  \/ \E f \in DOMAIN formData, v \in {"", "reduce support cost", "SaaS", "SMB", "a@b.com"} :
       [formData EXCEPT ![f] = v] \in FormFieldValues /\ ChangeField(f, v)
  \/ HandleSubmit
  \/ SubmitRefused
  \/ \E c \in CallIds, outcome \in {"rejected", "non2xx", "ok"} : FormFetchSettles(c, outcome)
  \/ \E c \in CallIds : FormJsonRejects(c)
  \/ \E c \in CallIds : \E data \in ConsultOkBodies(call[c].body) : FormJsonResolves(c, data)
  \/ Render

FormSpec == Init /\ [][FormNext]_vars

\* The form with every issued fetch settling and React rendering: the browser
\* runs a continuation once its promise has settled, and React renders after
\* a state update.
FormLiveSpec ==
  /\ Init
  /\ [][FormNext]_vars
  /\ WF_vars(\E c \in CallIds, outcome \in {"rejected", "non2xx", "ok"} : FormFetchSettles(c, outcome))
  /\ WF_vars(\E c \in CallIds : FormJsonRejects(c))
  /\ WF_vars(Render)

\* The businessImpact objects a delegate may answer with: each string-valued
\* slot present or absent, each list-valued slot absent, empty or with
\* repeated, unsorted elements.
ListChoices == [ListSlots -> {"absent", "empty", "items"}]

ImpactOf(present, choice) ==
  [s \in present \cup {l \in ListSlots : choice[l] # "absent"} |->
     IF s \in ListSlots
       THEN IF choice[s] = "empty" THEN << >> ELSE << "b", "a", "b" >>
       ELSE << "text" >>]

ImpactInputs == {ImpactOf(present, choice) : present \in SUBSET StringSlots, choice \in ListChoices}

FilledForm == [problem |-> "reduce support cost", industry |-> "SaaS", companySize |-> "SMB", email |-> "a@b.com"]

\* The form right after a first submission succeeded through the delegate,
\* before React has rendered the result.
RendererInit ==
  /\ GatewayInit
  /\ AuthInit
  /\ PageInit
  /\ AdminInit
  /\ formData = FilledForm
  /\ loading = FALSE
  /\ \E impact \in ImpactInputs :
       result = [set |-> TRUE,
                 data |-> [recommendations |-> << "live analysis" >>, businessImpact |-> impact]]
  /\ error = ""
  /\ dom = Rendered(TRUE, NoResult, "")
  /\ call = [c \in CallIds |-> NoCall]
  /\ nCalls = 1
  /\ blocked = 0
  /\ settled = << "success" >>
  /\ view = NoView

RendererNext == Render

RendererSpec == RendererInit /\ [][RendererNext]_vars

(***************************************************************************)
(* Properties of the consultation gateway                                  *)
(***************************************************************************)
Answered(r) == pc[r] = "done"

\* The external service was unreachable for the handling's delegate call.
Unreachable(r) == calls[r] >= 1 /\ svc[r] = "refused"

\* The delegate call of the handling failed: rejected, non-OK, or unparsable.
DelegateFailed(r) == calls[r] >= 1 /\ svc[r] \in {"refused", "nonOK", "okGarbled"}

HasNonEmptyProblem(body) ==
  body.kind = "object" /\ body.problem \notin {UNDEFINED, ""}

\* A body with recommendations and all eleven businessImpact slots.
IsConsultationResponse(b) ==
  /\ "recommendations" \in DOMAIN b
  /\ "businessImpact" \in DOMAIN b
  /\ Slots \subseteq DOMAIN b.businessImpact

\* The text s, a sequence of literal and interpolated parts, contains the
\* interpolated value v.
Mentions(s, v) == \E i \in 1..Len(s) : s[i] = v

\* C1: every request with a non-empty problem is answered, whatever the
\* external service does, with status 200 and a body that holds
\* recommendations and all eleven businessImpact slots.
C1_AllSlotsPresent ==
  \A r \in Requests :
    (Answered(r) /\ HasNonEmptyProblem(req[r])) =>
      (resp[r].status = 200 /\ IsConsultationResponse(resp[r].body))

\* C2: a request whose problem is empty or missing makes no call to the
\* external service and is answered with a 4xx status.
C2_EmptyProblemRejected ==
  \A r \in Requests :
    (req[r].kind = "object" /\ req[r].problem \in {UNDEFINED, ""}) =>
      /\ calls[r] = 0
      /\ Answered(r) => resp[r].status \in 400..499

\* C3: every failure of the delegate call (rejected fetch, non-OK status,
\* unparsable body) is answered with status 200 and the fallback template,
\* never with an error body.
C3_FailuresMapToFallback ==
  \A r \in Requests :
    (Answered(r) /\ DelegateFailed(r)) =>
      /\ via[r] = "fallback"
      /\ resp[r].status = 200
      /\ "error" \notin DOMAIN resp[r].body
      /\ resp[r].body = MockResponse(req[r])

C3_Witness ==
  /\ Answered("r1") /\ svc["r1"] = "nonOK" /\ resp["r1"].status = 200
  /\ Answered("r2") /\ svc["r2"] = "okGarbled" /\ resp["r2"].status = 200

\* C4: a step that produces the fallback response is taken only after the
\* delegate call was issued and only when that call failed; a handling whose
\* delegate call succeeds is answered with the delegate's data, however late
\* the reply comes.
C4_DelegateFirst ==
  [][\A r \in Requests :
       /\ (via[r] # "fallback" /\ via'[r] = "fallback") =>
            (calls[r] = 1 /\ pc[r] \in {"fetch", "json"} /\ DelegateFailed(r))
       /\ (svc[r] = "ok" /\ ~Answered(r) /\ Answered(r)') =>
            (via'[r] = "delegate" /\ resp'[r].body \in DelegateData)]_vars

C4_Witness ==
  /\ via["r1"] = "fallback" /\ calls["r1"] = 1 /\ svc["r1"] = "refused"
  /\ via["r2"] = "delegate" /\ calls["r2"] = 1 /\ svc["r2"] = "ok"

\* C5: with the external service unreachable, two requests that agree on
\* industry and companySize receive identical responses, whatever their
\* problem and email.
C5_FallbackDependsOnIndustryAndSizeOnly ==
  \A r1, r2 \in Requests :
    ( /\ Answered(r1) /\ Unreachable(r1)
      /\ Answered(r2) /\ Unreachable(r2)
      /\ req[r1].industry = req[r2].industry
      /\ req[r1].companySize = req[r2].companySize ) =>
      resp[r1] = resp[r2]

C5_Witness ==
  /\ Answered("r1") /\ Unreachable("r1")
  /\ Answered("r2") /\ Unreachable("r2")
  /\ req["r1"].industry = "SaaS" /\ req["r2"].industry = "SaaS"
  /\ req["r1"].companySize = "SMB" /\ req["r2"].companySize = "SMB"
  /\ req["r1"].problem # req["r2"].problem
  /\ req["r1"].email # req["r2"].email

\* C6 as stated: with the external service unreachable, the recommendations
\* string mentions the request's industry and its companySize.
C6_RecommendationsMentionBoth ==
  \A r \in Requests :
    ( /\ Answered(r) /\ Unreachable(r)
      /\ req[r].industry # UNDEFINED /\ req[r].companySize # UNDEFINED ) =>
      /\ Mentions(resp[r].body.recommendations, req[r].industry)
      /\ Mentions(resp[r].body.recommendations, req[r].companySize)

\* C6 amended: with the external service unreachable, the recommendations
\* string mentions the request's industry, and businessImpact.cost_savings
\* mentions both its industry and its companySize.
C6_IndustryInRecommendationsBothInCostSavings ==
  \A r \in Requests :
    ( /\ Answered(r) /\ Unreachable(r)
      /\ req[r].industry # UNDEFINED /\ req[r].companySize # UNDEFINED ) =>
      /\ Mentions(resp[r].body.recommendations, req[r].industry)
      /\ Mentions(resp[r].body.businessImpact.cost_savings, req[r].industry)
      /\ Mentions(resp[r].body.businessImpact.cost_savings, req[r].companySize)

C6_Witness ==
  /\ Answered("r1") /\ Unreachable("r1")
  /\ req["r1"].problem = "reduce support cost"
  /\ req["r1"].industry = "SaaS" /\ req["r1"].companySize = "SMB"
  /\ req["r1"].email = "a@b.com"

\* C7: with the external service unreachable, key_metrics is a non-empty list
\* of strings, and key_metrics, roi_estimate and implementation_timeline are
\* the same for every request.
C7_FixedFigures ==
  \A r1, r2 \in Requests :
    (Answered(r1) /\ Unreachable(r1)) =>
      LET impact1 == resp[r1].body.businessImpact IN
      /\ Len(impact1.key_metrics) >= 1
      /\ \A i \in 1..Len(impact1.key_metrics) : impact1.key_metrics[i] \in STRING
      /\ (Answered(r2) /\ Unreachable(r2)) =>
           LET impact2 == resp[r2].body.businessImpact IN
           /\ impact1.key_metrics = impact2.key_metrics
           /\ impact1.roi_estimate = impact2.roi_estimate
           /\ impact1.implementation_timeline = impact2.implementation_timeline

C7_Witness ==
  /\ Answered("r1") /\ Unreachable("r1")
  /\ Answered("r2") /\ Unreachable("r2")
  /\ req["r1"].industry # req["r2"].industry
  /\ req["r1"].companySize # req["r2"].companySize
  /\ req["r1"].problem # req["r2"].problem

\* C9: the wait on the external service is bounded: a handling that waits for
\* the delegate call can always take a step that ends the wait.
C9_WaitIsBounded ==
  \A r \in Requests :
    pc[r] \in {"fetch", "json"} =>
      ENABLED (ConsultFetchSettles(r) \/ ConsultJsonSettles(r))


(***************************************************************************)
(* Properties of the handlers' calls to external services                  *)
(***************************************************************************)
SignupValid(body) ==
  body.kind = "object" /\ ~Falsy(body.email) /\ ~Falsy(body.password) /\ ~Falsy(body.fullName)

LoginValid(body) ==
  body.kind = "object" /\ ~Falsy(body.email) /\ ~Falsy(body.password)

\* C8: each handler calls its external service at most once per request, and
\* exactly once when the request passes the handler's validation (for the
\* consult route: when its body can be read), whatever the call's outcome.
C8_ExactlyOneCallPerValidRequest ==
  /\ \A r \in Requests :
       /\ calls[r] <= 1
       /\ req[r].kind # "none" => (calls[r] = 1 <=> req[r].kind \in {"object", "scalar"})
  /\ aCalls["signup"] <= 1
  /\ aReq["signup"].kind # "none" => (aCalls["signup"] = 1 <=> SignupValid(aReq["signup"]))
  /\ aCalls["login"] <= 1
  /\ aReq["login"].kind # "none" => (aCalls["login"] = 1 <=> LoginValid(aReq["login"]))

C8_Witness ==
  /\ Answered("r1") /\ DelegateFailed("r1") /\ calls["r1"] = 1
  /\ aPc["signup"] = "done" /\ idp["signup"] = "error" /\ aCalls["signup"] = 1
  /\ aPc["login"] = "done" /\ idp["login"] = "throws" /\ aCalls["login"] = 1

\* C17: a request whose body cannot be parsed as a JSON object is answered
\* with status 500 and a body holding only an error message, and no call to
\* the external service is made for it.
C17_NonObjectBodyIs500WithoutCall ==
  \A r \in Requests :
    Answered(r) /\ req[r].kind # "object" =>
      /\ resp[r].status = 500
      /\ DOMAIN resp[r].body = {"error"}
      /\ calls[r] = 0

\* What a handling answers when it is the only one: a function of its own
\* request body and of what the external service did for its own call.
SoloResponses(body, s) ==
  IF ~Destructurable(body) THEN {[status |-> 500, body |-> ConsultErrorBody]}
  ELSE IF s \in {"refused", "nonOK", "okGarbled"}
    THEN {[status |-> 200, body |-> MockResponse(body)]}
  ELSE {[status |-> 200, body |-> d] : d \in DelegateData}

\* C18: the gateway keeps nothing between or across requests: whatever other
\* handling runs before or meanwhile, a handling's response is the one it
\* gives alone for its own body and its own call's outcome, and its delegate
\* call carries its own fields.
C18_HandlingsAreIndependent ==
  \A r \in Requests :
    /\ Answered(r) => resp[r] \in SoloResponses(req[r], svc[r])
    /\ calls[r] >= 1 => sent[r].body = JSONStringify(req[r])
    /\ ~Answered(r) => resp[r] = NoResponse

C18_Witness ==
  /\ Answered("r1") /\ via["r1"] = "fallback"
  /\ pc["r2"] \in {"fetch", "json"}
  /\ req["r1"].kind = "object" /\ req["r2"].kind = "object"
  /\ req["r1"].industry # req["r2"].industry
  /\ req["r1"].companySize # req["r2"].companySize

DelegateSucceeded(r) == Answered(r) /\ calls[r] = 1 /\ svc[r] = "ok"

\* C25: when the delegate call succeeds, the response has status 200 and its
\* body is the body the external service's reply parsed to, with no field
\* added, removed or checked, whatever the fallback template would hold.
C25_DelegateBodyReturnedUnchanged ==
  \A r \in Requests :
    DelegateSucceeded(r) =>
      /\ reply[r].parsed
      /\ resp[r].status = 200
      /\ resp[r].body = reply[r].data
      /\ via[r] = "delegate"

C25_Witness ==
  /\ DelegateSucceeded("r1")
  /\ reply["r1"].data = EmptyObject
  /\ DelegateSucceeded("r2")
  /\ "recommendations" \in DOMAIN reply["r2"].data
  /\ "businessImpact" \notin DOMAIN reply["r2"].data

(***************************************************************************)
(* Properties of the auxiliary endpoints                                   *)
(***************************************************************************)
\* A required field that the request's body does not have or has empty.
Missing(x) == x = UNDEFINED \/ x = NULL \/ x = ""

\* A response with a 4xx status and a message.
IsClientError(response) ==
  /\ response.status \in 400..499
  /\ "error" \in DOMAIN response.body
  /\ response.body.error # << >>
  /\ \A i \in 1..Len(response.body.error) : response.body.error[i] # ""

SignupMissesField(body) ==
  Destructurable(body) /\ (Missing(body.email) \/ Missing(body.password) \/ Missing(body.fullName))

LoginMissesField(body) ==
  Destructurable(body) /\ (Missing(body.email) \/ Missing(body.password))

NotifyMissesField(body) ==
  Destructurable(body) /\ (Missing(body.formData) \/ Missing(body.type))

\* C20: a signup request (with a body that was read) missing email, password
\* or fullName, and a login request missing email or password, never leads to
\* a call to the identity service and is answered with a 4xx status and a
\* message; a notify request missing formData or type is answered with a 4xx
\* status and a message.
C20_ValidationPrecedesUpstreamCall ==
  /\ SignupMissesField(aReq["signup"]) =>
       /\ aCalls["signup"] = 0
       /\ aPc["signup"] = "done"
       /\ IsClientError(aResp["signup"])
  /\ LoginMissesField(aReq["login"]) =>
       /\ aCalls["login"] = 0
       /\ aPc["login"] = "done"
       /\ IsClientError(aResp["login"])
  /\ NotifyMissesField(nReq) =>
       /\ nPc = "done"
       /\ IsClientError(nResp)

C20_Witness ==
  /\ aReq["signup"].kind = "object"
  /\ ~Missing(aReq["signup"].email) /\ ~Missing(aReq["signup"].password)
  /\ Missing(aReq["signup"].fullName)
  /\ aResp["signup"].status = 400
  /\ aReq["login"].kind = "object"
  /\ ~Missing(aReq["login"].email) /\ Missing(aReq["login"].password)
  /\ aResp["login"].status = 400
  /\ nReq.kind = "object"
  /\ ~Missing(nReq.formData) /\ Missing(nReq.type)
  /\ nResp.status = 400

\* The identity service rejected the handler's call.
Rejected(h) == aPc[h] = "done" /\ aCalls[h] = 1 /\ idp[h] \in {"error", "errorNoMessage"}

RejectionStatus(h) == IF h = "signup" THEN 400 ELSE 401

\* C21: when the identity service rejects a signup or login, the response has
\* status 400 (signup) or 401 (login) and only an error field, which is the
\* identity service's message as it is when that message is not empty; a
\* login accepted without a user is answered with 401 and only an error.
C21_RejectionIsPropagatedVerbatim ==
  /\ \A h \in Handlers :
       Rejected(h) =>
         /\ aResp[h].status = RejectionStatus(h)
         /\ DOMAIN aResp[h].body = {"error"}
         /\ aResp[h].body.error # << "" >>
         /\ IdpErrorMessage(idp[h]) # "" =>
              aResp[h].body.error = << IdpErrorMessage(idp[h]) >>
  /\ aPc["login"] = "done" /\ aCalls["login"] = 1 /\ idp["login"] = "noUser" =>
       aResp["login"].status = 401 /\ DOMAIN aResp["login"].body = {"error"}

C21_Witness ==
  /\ Rejected("signup") /\ idp["signup"] = "error"
  /\ aPc["login"] = "done" /\ idp["login"] = "noUser" /\ aResp["login"].status = 401

\* A success body is sent with a 2xx status, an error body with the others.
EnvelopeMatchesStatus(response) ==
  IF response.status \in 200..299
    THEN "success" \in DOMAIN response.body /\ response.body.success = TRUE
         /\ "error" \notin DOMAIN response.body
    ELSE DOMAIN response.body = {"error"}

\* C22 as stated: signup answers only 201, 400 or 500, login only 200, 401
\* or 500, notify only 200, 400 or 500, and the body's envelope matches the
\* status.
C22_DocumentedStatusSets ==
  /\ aPc["signup"] = "done" =>
       aResp["signup"].status \in {201, 400, 500} /\ EnvelopeMatchesStatus(aResp["signup"])
  /\ aPc["login"] = "done" =>
       aResp["login"].status \in {200, 401, 500} /\ EnvelopeMatchesStatus(aResp["login"])
  /\ nPc = "done" =>
       nResp.status \in {200, 400, 500} /\ EnvelopeMatchesStatus(nResp)

\* C22: signup answers only 201, 400 or 500, login only 200, 400 (its
\* validation), 401 or 500, notify only 200, 400 or 500; a success body is
\* sent only with the 2xx status and an error body only with the others.
C22_StatusSetsWithLoginValidation ==
  /\ aPc["signup"] = "done" =>
       aResp["signup"].status \in {201, 400, 500} /\ EnvelopeMatchesStatus(aResp["signup"])
  /\ aPc["login"] = "done" =>
       /\ aResp["login"].status \in {200, 400, 401, 500}
       /\ EnvelopeMatchesStatus(aResp["login"])
       /\ aResp["login"].status = 400 <=> LoginMissesField(aReq["login"])
  /\ nPc = "done" =>
       nResp.status \in {200, 400, 500} /\ EnvelopeMatchesStatus(nResp)

C22_Witness ==
  /\ aPc["signup"] = "done" /\ aResp["signup"].status = 201
  /\ aPc["login"] = "done" /\ aResp["login"].status = 400
  /\ nPc = "done" /\ nResp.status = 500

\* What String(error) can be for the exceptions a handler catches.
ExceptionTexts ==
  {ExceptionText("malformed"), ExceptionText("null"), "TypeError: fetch failed"}

\* The message has no part that comes from the exception.
IsGeneric(message) ==
  \A i \in 1..Len(message) : message[i] \notin ExceptionTexts

\* C23: a 500 response of the consult, signup, login or notify handler has
\* only an error message, and that message is the same whatever exception
\* was raised: no part of it is the exception's text.
C23_InternalErrorIsGeneric ==
  /\ \A r \in Requests :
       Answered(r) /\ resp[r].status = 500 => resp[r].body = ConsultErrorBody
  /\ \A h \in Handlers :
       aPc[h] = "done" /\ aResp[h].status = 500 =>
         DOMAIN aResp[h].body = {"error"} /\ IsGeneric(aResp[h].body.error)
  /\ nPc = "done" /\ nResp.status = 500 =>
       DOMAIN nResp.body = {"error"} /\ IsGeneric(nResp.body.error)

\* C24: a notify request with formData and type present is answered 200
\* {success: true, message} only after the handler has forwarded the record
\* to the external service.
C24_NotifyForwardsBeforeSuccess ==
  nPc = "done" /\ nResp.status = 200 =>
    /\ nResp.body.success = TRUE
    /\ Len(nSent) = 1
    /\ nSent[1].formData = nReq.formData
    /\ nSent[1].type = nReq.type

(***************************************************************************)
(* Properties of ConsultationForm                                          *)
(***************************************************************************)
\* The fetches to /api/consult that have been issued and have not settled.
InFlight == {c \in CallIds : call[c].pc \in {"fetch", "json"}}

\* C10: at no time are two fetches of the form in flight, and while one is in
\* flight the committed render shows the pending state (the submit button is
\* disabled), so that a submit attempt made meanwhile issues no fetch.
C10_OneFetchInFlight ==
  /\ Cardinality(InFlight) <= 1
  /\ InFlight # {} => dom.loading

C10_Witness == Cardinality(InFlight) = 1 /\ blocked >= 1 /\ nCalls = 1

\* The last finished submission failed and nothing has been submitted since.
LastSubmissionFailed ==
  /\ settled # << >>
  /\ settled[Len(settled)] = "failure"
  /\ InFlight = {}

\* React has committed the component's current state.
Committed == dom = Rendered(loading, result, error)

\* C11: when a submission fails, the error is the generic message and the
\* result is null, in the component's state and in what is displayed, also
\* when an earlier submission had succeeded; an error is never anything but
\* the generic message and never comes with a result.
C11_FailureShowsGenericErrorAndNoResult ==
  /\ error # "" => error = ErrorMessage /\ result = NoResult
  /\ dom.error # "" => dom.error = ErrorMessage /\ dom.result = NoResult
  /\ LastSubmissionFailed => error = ErrorMessage /\ result = NoResult
  /\ LastSubmissionFailed /\ Committed =>
       dom.error = ErrorMessage /\ dom.result = NoResult /\ ~view.shown

C11_Witness ==
  /\ LastSubmissionFailed
  /\ Committed
  /\ \E i \in 1..Len(settled) : settled[i] = "success"

\* C12: of pending, success and error at most one holds, in the component's
\* state and in every committed render; in particular a result and an error
\* are never displayed together.
C12_AtMostOneOfPendingSuccessError ==
  /\ ~(loading /\ result.set) /\ ~(loading /\ error # "") /\ ~(result.set /\ error # "")
  /\ ~(dom.loading /\ dom.result.set)
  /\ ~(dom.loading /\ dom.error # "")
  /\ ~(dom.result.set /\ dom.error # "")
  /\ view.shown => dom.result.set /\ dom.error = ""

C12_Witness ==
  /\ dom.result.set /\ view.shown
  /\ Len(settled) = 2 /\ settled[1] = "failure" /\ settled[2] = "success"

\* C13: a request to /api/consult is made only with all four fields
\* non-empty.
C13_FetchOnlyWithAllFieldsFilled ==
  \A c \in CallIds :
    call[c].pc # "none" => \A f \in DOMAIN call[c].body : call[c].body[f] # ""

\* The result on display is the gateway's fallback consultation.
FallbackDisplayed ==
  /\ result.set
  /\ result.data \in {MockResponse(GatewayBody(fd)) : fd \in FormFieldValues}
  /\ dom.result = result

\* C15: when the gateway answered with its fallback, the form ends in the
\* success state and the fallback is rendered without a rendering failure.
C15_FallbackRendersAsSuccess ==
  FallbackDisplayed => ~view.crashed /\ view.shown

(***************************************************************************)
(* Properties of the Business Impact renderer                              *)
(***************************************************************************)
\* The result has been through a render.
ResultRendered == dom.result = result /\ result.set

Shown(s) == CHOOSE i \in 1..Len(DisplayOrder) : DisplayOrder[i] = s

\* C14: whatever subset of the eleven slots is absent, string-valued or
\* list-valued, the render does not fail and an absent slot shows no content.
C14_AbsentSlotsRenderEmpty ==
  ResultRendered =>
    /\ ~view.crashed
    /\ view.shown
    /\ \A s \in Slots \ DOMAIN result.data.businessImpact :
         view.blocks[Shown(s)].content = << >> /\ view.blocks[Shown(s)].bullets = << >>

\* C16: a list-valued slot renders one bullet per element, in array order
\* (the bullet's key is the element's index), repeated elements included; an
\* empty list renders no bullet and the render does not fail.
C16_OneBulletPerElementInOrder ==
  ResultRendered /\ ListSlots \subseteq DOMAIN result.data.businessImpact =>
    /\ ~view.crashed
    /\ view.shown
    /\ \A s \in ListSlots :
         LET l == result.data.businessImpact[s]
             b == view.blocks[Shown(s)].bullets
         IN /\ Len(b) = Len(l)
            /\ \A i \in 1..Len(l) : b[i].text = l[i] /\ b[i].key = i - 1

C16_Witness ==
  /\ ResultRendered
  /\ view.shown
  /\ result.data.businessImpact.key_metrics = << "b", "a", "b" >>
  /\ result.data.businessImpact.success_factors = << >>
  /\ result.data.businessImpact.potential_challenges = << "b", "a", "b" >>

\* The submit button is on the page and not disabled.
ButtonEnabled == ~view.crashed /\ ~dom.loading

\* C26: loading is true only while a fetch is in flight, and whenever the
\* form shows the pending state then, the fetch settling, the form later
\* shows the submit button enabled again.
C26_PendingEndsWithButtonEnabled ==
  /\ [](loading => InFlight # {})
  /\ (dom.loading ~> ButtonEnabled)

(***************************************************************************)
(* Properties of AuthPage                                                  *)
(***************************************************************************)
\* This step ends a submission in failure: the fetch was rejected, or the
\* response was not 2xx.
SubmissionFails ==
  /\ pgCall.pc # "none"
  /\ pgCall'.pc = "none"
  /\ pgCall.pc = "fetch" \/ ~pgCall.ok

\* C27: auth_token is written only at the end of a submission whose response
\* was 2xx, with the session's token, and together with the success message;
\* a submission that ends with a non-2xx response or a failed fetch shows an
\* error and no success message, stores nothing, sets no timer, and neither
\* redirects nor changes the mode.
C27_TokenStoredOnlyOnSuccess ==
  [][/\ pgStorage' # pgStorage =>
          /\ pgCall.pc = "json" /\ pgCall.ok
          /\ pgStorage' = "token-1"
          /\ pgSuccess' = SuccessMessage(pgCall.mode)
          /\ pgError' = ""
     /\ SubmissionFails =>
          /\ pgError' # ""
          /\ pgSuccess' = ""
          /\ pgStorage' = pgStorage
          /\ pgTimers' = pgTimers
          /\ pgPushed' = pgPushed
          /\ pgMode' = pgMode]_vars

C27_Witness ==
  /\ pgSubmits = 2
  /\ pgCall.pc = "none"
  /\ pgStorage = "token-1"
  /\ pgError = "Invalid login credentials"
  /\ pgSuccess = ""
  /\ pgTimers[2].state = "none"

C29_DeleteRemovesExactlyItsRow ==
  [][del.pc = "reply" /\ del'.pc = "none" =>
       submissions' = IF del.ok THEN Without(submissions, del.id) ELSE submissions]_vars

\* No event is waiting and no fetchSubmissions or deleteSubmission is at its
\* await.
Quiescent ==
  /\ mounted
  /\ adEvents = 0
  /\ \A f \in FetchIds : fetches[f].pc \in {"none", "done"}
  /\ del.pc = "none"

AllFetchesSucceeded == \A f \in FetchIds : fetches[f].pc = "done" => fetches[f].ok

NoRowDeleted == table = 1..(adNextId - 1)

\* C30: every realtime event starts a fetchSubmissions; a failed fetch
\* leaves the displayed list unchanged and sets loading to false; and once no
\* event is waiting and every fetch has completed (all of them successfully,
\* no row having been deleted), the displayed list is the table's content,
\* newest first, whatever the order in which the replies arrived.
C30_DisplayedListConvergesToTable ==
  /\ [][adEvents' < adEvents => nFetches' = nFetches + 1]_vars
  /\ [][\A f \in FetchIds :
          fetches[f].pc = "reply" /\ ~fetches[f].ok /\ fetches'[f].pc = "done" =>
            submissions' = submissions /\ adLoading' = FALSE]_vars
  /\ [](Quiescent /\ AllFetchesSucceeded /\ NoRowDeleted => submissions = SortDesc(table))

=============================================================================
